---- MODULE Spec2Model ----
(***************************************************************************)
(* ApiController of the admin panel: the four routed operations search,    *)
(* resourceAction, recordAction and dashboard                              *)
(* (src/backend/controllers/api-controller.ts).                            *)
(*                                                                         *)
(* One controller instance is constructed for, and serves, one request.    *)
(* Every await of the code is a suspension point, so every operation is    *)
(* modelled as the sequence of its synchronous segments; pc names the      *)
(* await the request is parked at.                                         *)
(* Every call the controller makes into a collaborator is appended to      *)
(* calls, so the order of the calls of one request can be stated.          *)
(***************************************************************************)
EXTENDS Integers, Sequences, FiniteSets, TLC

VARIABLES
  pc,               \* position of the request in flight
  op,               \* the operation the request runs
  params,           \* request.params
  currentAdmin,     \* this.currentAdmin
  actionContext,    \* const actionContext of resourceAction / recordAction
  record,           \* let record of recordAction
  records,          \* const records of search
  calls,            \* collaborator calls of the request, in order
  awaited,          \* what the promise last awaited settled to
  outcome,          \* what the operation's promise settled to
  store,            \* records held by each registered resource
  dashboardHandler  \* this._admin.options.dashboard.handler is set

vars == <<pc, op, params, currentAdmin, actionContext, record, records,
          calls, awaited, outcome, store, dashboardHandler>>

----------------------------------------------------------------------------
(* Sizes *)

\* largest number of records of one title a resource holds
MaxPerTitle == 30

\* limit: 50 of the options search passes to find
SearchLimit == 50

----------------------------------------------------------------------------
(* JavaScript values *)

Undefined == [kind |-> "undefined"]
Null == [kind |-> "null"]

\* JavaScript truthiness of a value, by the class of the value
Truthy(v) == v.kind \notin {"undefined", "null", "false", "zero", "emptyString"}

\* the query strings a route can carry: none, the empty string, a term
QueryStrings ==
  {Undefined, [kind |-> "emptyString"],
   [kind |-> "string", s |-> "ann"], [kind |-> "string", s |-> "bob"]}

----------------------------------------------------------------------------
(* The admin instance: resources, their decoration, their records *)

Actors == {"admin", "guest"}

ResourceIds == {"users", "orders"}
RequestedResourceIds == ResourceIds \cup {"ghost"}

Resource(id) == [kind |-> "resource", id |-> id]

\* resource.id()
id(resource) == resource.id

\* this._admin.findResource(resourceId): the registered resource of that id
Registered(resourceId) == resourceId \in ResourceIds
findResource(resourceId) == Resource(resourceId)

\* resource.decorate().titleProperty().name()
titlePropertyName(resource) ==
  IF id(resource) = "users" THEN "name" ELSE "number"

\* the keys of resource.decorate().actions
ActionNames(resource) ==
  IF id(resource) = "users" THEN {"list", "approve"}
  ELSE {"list", "approve", "export"}
RequestedActionNames == {"list", "approve", "export", "nope"}

Action(name) == [kind |-> "action", name |-> name]

\* resource.decorate().actions[actionName]: undefined for a key not there
decoratedAction(resource, actionName) ==
  IF actionName \in ActionNames(resource) THEN Action(actionName) ELSE Undefined

\* titles a record can carry, in ascending order
Titles == <<"Ann A", "Bob">>
TitleIndex == 1..Len(Titles)
Counts == {0, 1, MaxPerTitle}

\* the record number k of title number t
RecordId(t, k) == (t - 1) * (MaxPerTitle + 1) + k
Record(t, k) ==
  [kind |-> "record", id |-> RecordId(t, k), title |-> Titles[t],
   populated |-> FALSE]

RequestedRecordIds == {0, RecordId(1, 1), RecordId(2, 1)}

\* a title matches a search term
Matches(title, term) ==
  \/ term = "ann" /\ title = "Ann A"
  \/ term = "bob" /\ title = "Bob"

----------------------------------------------------------------------------
(* Collaborators of the controller *)

RECURSIVE RecordsFrom(_, _)
\* all the records a resource holds, ascending by title
RecordsFrom(held, t) ==
  IF t > Len(Titles) THEN <<>>
  ELSE [k \in 1..held[t] |-> Record(t, k)] \o RecordsFrom(held, t + 1)

RECURSIVE Reverse(_)
Reverse(s) == IF s = <<>> THEN <<>> ELSE Reverse(Tail(s)) \o <<Head(s)>>

\* new Filter(filters, resource)
Filter(filters, resource) ==
  [kind |-> "filter", filters |-> filters, resource |-> id(resource)]

\* a record passes the filter: every filtered property matches
Passes(rec, filter) ==
  \A f \in filter.filters :
     /\ f[1] = titlePropertyName(Resource(filter.resource))
     /\ Matches(rec.title, f[2])

Min(a, b) == IF a < b THEN a ELSE b

\* resource.find(filter, {limit, sort}): the records passing the filter,
\* in the order asked for, cut at the limit
find(held, filter, options) ==
  LET passing == SelectSeq(RecordsFrom(held, 1), LAMBDA r : Passes(r, filter))
      sorted == IF options.sort.direction = "asc" THEN passing
                ELSE Reverse(passing)
  IN SubSeq(sorted, 1, Min(options.limit, Len(sorted)))

\* resource.findOne(recordId): the record of that id, or null
findOne(held, recordId) ==
  IF \E t \in TitleIndex : \E k \in 1..held[t] : RecordId(t, k) = recordId
  THEN CHOOSE r \in {Record(t, k) : t \in TitleIndex, k \in 1..MaxPerTitle} :
         r.id = recordId
  ELSE Null

\* populator(records): every record with its references resolved, in the
\* same order; a null entry stays null
populator(recs) ==
  [i \in 1..Len(recs) |->
     IF recs[i].kind = "record" THEN [recs[i] EXCEPT !.populated = TRUE]
     ELSE recs[i]]

\* record.toJSON(currentAdmin): the serialized record; what an actor may not
\* see is redacted
toJSON(rec, actor) ==
  [id |-> rec.id, title |-> rec.title,
   params |-> IF actor = "admin" THEN "visible" ELSE "redacted"]

\* what a handler can resolve to: undefined, null, or an object whose record
\* is absent, null or an object whose recordActions is absent, null, an
\* empty array or an array of actions
RecordJson(recordActions) ==
  [kind |-> "object", recordActions |-> recordActions]
Json(rec) == [kind |-> "object", record |-> rec]
HandlerResults ==
  {Undefined, Null, Json(Undefined), Json(Null),
   Json(RecordJson(Undefined)), Json(RecordJson(Null)),
   Json(RecordJson([kind |-> "emptyArray"])),
   Json(RecordJson([kind |-> "array"]))}

----------------------------------------------------------------------------
(* Settled promises, errors *)

Pending == [kind |-> "pending"]
Return(v) == [kind |-> "return", value |-> v]
Throw(e) == [kind |-> "throw", error |-> e]

NotFoundError == [name |-> "NotFoundError"]
TypeError == [name |-> "TypeError"]
ForbiddenError(actionName, resourceId) ==
  [name |-> "ForbiddenError", actionName |-> actionName,
   resourceId |-> resourceId]
ConfigurationError(message, source) ==
  [name |-> "ConfigurationError", message |-> message, source |-> source]
\* an error raised inside a collaborator
CollaboratorError(from) == [name |-> "Error", from |-> from]

----------------------------------------------------------------------------
(* The request in flight *)

NoParams ==
  [resourceId |-> "-", action |-> "-", recordId |-> -1, query |-> Undefined]

\* the controller has been constructed and its operation not yet called
Idle == pc = "idle"

\* the calls made so far, and one more
Called(event) == Append(calls, event)

FindResourceCall(resourceId) ==
  [fn |-> "findResource", resourceId |-> resourceId]
IsAccessibleCall(action, actor, rec, result) ==
  [fn |-> "isAccessible", action |-> action.name, actor |-> actor,
   record |-> rec, result |-> result]
HandlerCall(action, context) ==
  [fn |-> "handler", action |-> action.name, context |-> context]

\* context.record as a handler reads it: undefined when the key is not there
contextRecord(context) ==
  IF "record" \in DOMAIN context THEN context.record ELSE Undefined

\* getActionContext(request), for a resource that is registered
getActionContext(request, admin) ==
  LET resource == findResource(request.resourceId)
      action == decoratedAction(resource, request.action)
  IN [resource |-> resource, action |-> action, h |-> "ViewHelpers",
      currentAdmin |-> admin, _admin |-> "admin"]

\* a request comes in: the controller is constructed for its actor
Begin(operation, request, admin) ==
  /\ Idle
  /\ op' = operation
  /\ params' = request
  /\ currentAdmin' = admin
  /\ record' = Undefined
  /\ records' = <<>>
  /\ awaited' = Pending
  /\ UNCHANGED <<store, dashboardHandler>>

\* the operation's promise settles
Settle(result) ==
  /\ pc' = "done"
  /\ outcome' = result

\* the operation is parked at an await
Await(label) ==
  /\ pc' = label
  /\ outcome' = Pending

Init ==
  /\ pc = "idle"
  /\ op = "-"
  /\ params = NoParams
  /\ currentAdmin = "-"
  /\ actionContext = Undefined
  /\ record = Undefined
  /\ records = <<>>
  /\ calls = <<>>
  /\ awaited = Pending
  /\ outcome = Pending
  /\ store \in [ResourceIds -> [TitleIndex -> Counts]]
  /\ dashboardHandler \in BOOLEAN

----------------------------------------------------------------------------
(* search *)

\* the answer of the check on 'list' is not looked at
listForbiddenIgnored(accessible) == FALSE

\* if (!decorated.actions.list.isAccessible(this.currentAdmin, null))
listForbidden(accessible) == ~accessible

\* const filters = queryString ? { [titlePropertyName]: queryString } : {}
searchFilters(queryString, property) ==
  IF Truthy(queryString) THEN {<<property, queryString.s>>} ELSE {}

\* find is asked for twice as many records
searchOptionsDoubled(property) ==
  [limit |-> 2 * SearchLimit,
   sort |-> [sortBy |-> property, direction |-> "asc"]]

\* the options search passes to find
searchOptions(property) ==
  [limit |-> SearchLimit,
   sort |-> [sortBy |-> property, direction |-> "asc"]]

\* the records are serialized for an actor that is not the current one
searchResponseOtherActor(found, admin) ==
  [records |-> [i \in 1..Len(found) |->
                  toJSON(found[i], CHOOSE a \in Actors : a # admin)]]

\* records.map(record => record.toJSON(this.currentAdmin))
searchResponse(found, admin) ==
  [records |-> [i \in 1..Len(found) |-> toJSON(found[i], admin)]]

\* search, up to the await of resource.find
search(resourceId, queryString, admin) ==
  /\ Begin("search", [NoParams EXCEPT !.resourceId = resourceId,
                                       !.query = queryString], admin)
  /\ actionContext' = Undefined
  /\ IF ~Registered(resourceId)
     THEN /\ calls' = <<FindResourceCall(resourceId)>>
          /\ Settle(Throw(NotFoundError))
     ELSE LET resource == findResource(resourceId)
              list == decoratedAction(resource, "list")
              property == titlePropertyName(resource)
              filter == Filter(searchFilters(queryString, property), resource)
          IN \E accessible \in BOOLEAN :
               LET checked == <<FindResourceCall(resourceId),
                                IsAccessibleCall(list, admin, Null, accessible)>>
               IN IF listForbidden(accessible)
                  THEN /\ calls' = checked
                       /\ Settle(Throw(ForbiddenError("list", id(resource))))
                  ELSE /\ calls' = Append(checked,
                                     [fn |-> "find", filter |-> filter,
                                      options |-> searchOptions(property)])
                       /\ Await("search_find")

\* search, from the await of resource.find on
search_return ==
  /\ pc = "search_find"
  /\ \/ /\ awaited' = Throw(CollaboratorError("find"))
        /\ Settle(awaited')
        /\ UNCHANGED records
     \/ LET call == calls[Len(calls)]
            found == find(store[params.resourceId], call.filter, call.options)
        IN /\ awaited' = Return(found)
           /\ records' = found
           /\ Settle(Return(searchResponse(found, currentAdmin)))
  /\ UNCHANGED <<op, params, currentAdmin, actionContext, record, calls,
                 store, dashboardHandler>>

----------------------------------------------------------------------------
(* resourceAction *)

\* resourceAction, up to the await of getActionContext
resourceAction(resourceId, actionName, admin) ==
  LET request == [NoParams EXCEPT !.resourceId = resourceId,
                                  !.action = actionName]
  IN /\ Begin("resourceAction", request, admin)
     /\ calls' = <<FindResourceCall(resourceId)>>
     /\ IF ~Registered(resourceId)
        THEN /\ actionContext' = Undefined
             /\ Settle(Throw(NotFoundError))
        ELSE /\ actionContext' = getActionContext(request, admin)
             /\ Await("resourceAction_isAccessible")

\* if (!actionContext.action.isAccessible(this.currentAdmin, null))
resourceActionForbidden(accessible) == ~accessible

\* resourceAction, from the authorization check to the call of the handler
resourceAction_isAccessible ==
  /\ pc = "resourceAction_isAccessible"
  /\ LET action == actionContext.action
     IN IF action = Undefined
        THEN \* actionContext.action.isAccessible of undefined
             /\ calls' = calls
             /\ Settle(Throw(TypeError))
        ELSE \E accessible \in BOOLEAN :
               LET checked ==
                     Called(IsAccessibleCall(action, currentAdmin, Null,
                                             accessible))
               IN IF resourceActionForbidden(accessible)
                  THEN /\ calls' = checked
                       /\ Settle(Throw(ForbiddenError(
                                   action.name, id(actionContext.resource))))
                  ELSE /\ calls' = Append(checked,
                                          HandlerCall(action, actionContext))
                       /\ Await("resourceAction_handler")
  /\ UNCHANGED <<op, params, currentAdmin, actionContext, record, records,
                 awaited,
                 store, dashboardHandler>>

\* a handler value that is no RecordJSON is refused, as recordAction does
resourceAction_returnValidated ==
  /\ pc = "resourceAction_handler"
  /\ \/ /\ awaited' = Throw(CollaboratorError("handler"))
        /\ Settle(awaited')
     \/ \E result \in HandlerResults :
          /\ awaited' = Return(result)
          /\ Settle(IF Truthy(result) /\ Truthy(result.record)
                    THEN Return(result)
                    ELSE Throw(ConfigurationError(
                           "handler of a recordAction should return a RecordJSON object",
                           "Action.handler")))
  /\ UNCHANGED <<op, params, currentAdmin, actionContext, record, records,
                 calls, store, dashboardHandler>>

\* resourceAction, the handler settles and its promise is the result
resourceAction_return ==
  /\ pc = "resourceAction_handler"
  /\ \/ awaited' = Throw(CollaboratorError("handler"))
     \/ \E result \in HandlerResults : awaited' = Return(result)
  /\ Settle(awaited')
  /\ UNCHANGED <<op, params, currentAdmin, actionContext, record, records,
                 calls, store, dashboardHandler>>

----------------------------------------------------------------------------
(* recordAction *)

\* the record of the value is looked for, its recordActions are not
isRecordJSONShallow(jsonWithRecord) ==
  /\ Truthy(jsonWithRecord)
  /\ Truthy(jsonWithRecord.record)

\* jsonWithRecord && jsonWithRecord.record && jsonWithRecord.record.recordActions
isRecordJSON(jsonWithRecord) ==
  /\ Truthy(jsonWithRecord)
  /\ Truthy(jsonWithRecord.record)
  /\ Truthy(jsonWithRecord.record.recordActions)

\* what recordAction makes of the value its handler resolved to
recordActionResult(jsonWithRecord) ==
  IF isRecordJSON(jsonWithRecord)
  THEN Return(jsonWithRecord)
  ELSE Throw(ConfigurationError(
         "handler of a recordAction should return a RecordJSON object",
         "Action.handler"))

\* the handler is given the context as built, without the record
withRecordDropped(context, rec) == context

\* { ...actionContext, record }
withRecord(context, rec) == ("record" :> rec) @@ context

\* recordAction, up to the await of getActionContext
recordAction(resourceId, actionName, recordId, admin) ==
  LET request == [NoParams EXCEPT !.resourceId = resourceId,
                                  !.action = actionName,
                                  !.recordId = recordId]
  IN /\ Begin("recordAction", request, admin)
     /\ calls' = <<FindResourceCall(resourceId)>>
     /\ IF ~Registered(resourceId)
        THEN /\ actionContext' = Undefined
             /\ Settle(Throw(NotFoundError))
        ELSE /\ actionContext' = getActionContext(request, admin)
             /\ Await("recordAction_findOne")

\* a record that was not found is not handed to populator
recordAction_findOneSkipsPopulator ==
  /\ pc = "recordAction_findOne"
  /\ calls' = Called([fn |-> "findOne", recordId |-> params.recordId])
  /\ \/ /\ awaited' = Throw(CollaboratorError("findOne"))
        /\ Settle(awaited')
        /\ UNCHANGED record
     \/ /\ awaited' = Return(findOne(store[id(actionContext.resource)],
                                     params.recordId))
        /\ record' = awaited'.value
        /\ Await(IF record' = Null THEN "recordAction_isAccessible"
                 ELSE "recordAction_populator")
  /\ UNCHANGED <<op, params, currentAdmin, actionContext, records, store,
                 dashboardHandler>>

\* let record = await actionContext.resource.findOne(recordId)
recordAction_findOne ==
  /\ pc = "recordAction_findOne"
  /\ calls' = Called([fn |-> "findOne", recordId |-> params.recordId])
  /\ \/ /\ awaited' = Throw(CollaboratorError("findOne"))
        /\ Settle(awaited')
        /\ UNCHANGED record
     \/ /\ awaited' = Return(findOne(store[id(actionContext.resource)],
                                     params.recordId))
        /\ record' = awaited'.value
        /\ Await("recordAction_populator")
  /\ UNCHANGED <<op, params, currentAdmin, actionContext, records, store,
                 dashboardHandler>>

\* [record] = await populator([record])
recordAction_populator ==
  /\ pc = "recordAction_populator"
  /\ calls' = Called([fn |-> "populator", records |-> <<record>>])
  /\ \/ /\ awaited' = Throw(CollaboratorError("populator"))
        /\ Settle(awaited')
        /\ UNCHANGED record
     \/ /\ awaited' = Return(populator(<<record>>))
        /\ record' = awaited'.value[1]
        /\ Await("recordAction_isAccessible")
  /\ UNCHANGED <<op, params, currentAdmin, actionContext, records, store,
                 dashboardHandler>>

\* the answer of the check is not looked at
recordActionForbiddenIgnored(accessible) == FALSE

\* if (!actionContext.action.isAccessible(this.currentAdmin, record))
recordActionForbidden(accessible) == ~accessible

\* recordAction, from the authorization check to the call of the handler
recordAction_isAccessible ==
  /\ pc = "recordAction_isAccessible"
  /\ LET action == actionContext.action
     IN IF action = Undefined
        THEN \* actionContext.action.isAccessible of undefined
             /\ calls' = calls
             /\ Settle(Throw(TypeError))
        ELSE \E accessible \in BOOLEAN :
               LET checked ==
                     Called(IsAccessibleCall(action, currentAdmin, record,
                                             accessible))
               IN IF recordActionForbidden(accessible)
                  THEN /\ calls' = checked
                       /\ Settle(Throw(ForbiddenError(
                                   action.name, id(actionContext.resource))))
                  ELSE /\ calls' = Append(checked,
                             HandlerCall(action,
                                         withRecord(actionContext, record)))
                       /\ Await("recordAction_handler")
  /\ UNCHANGED <<op, params, currentAdmin, actionContext, record, records,
                 awaited,
                 store, dashboardHandler>>

\* recordAction, the handler settles and its value is validated
recordAction_return ==
  /\ pc = "recordAction_handler"
  /\ \/ /\ awaited' = Throw(CollaboratorError("handler"))
        /\ Settle(awaited')
     \/ \E jsonWithRecord \in HandlerResults :
          /\ awaited' = Return(jsonWithRecord)
          /\ Settle(recordActionResult(jsonWithRecord))
  /\ UNCHANGED <<op, params, currentAdmin, actionContext, record, records,
                 calls, store, dashboardHandler>>

----------------------------------------------------------------------------
(* dashboard *)

\* the payload dashboard answers with when no handler is set
dashboardFallback ==
  [message |-> "You can override this method by setting up dashboard.handler fuction in AdminBro options"]

\* the handler is not told the actor
dashboardContextNoActor(admin) == [h |-> "ViewHelpers", _admin |-> "admin"]

\* the context dashboard hands to the handler
dashboardContext(admin) ==
  [h |-> "ViewHelpers", currentAdmin |-> admin, _admin |-> "admin"]

\* dashboard, up to the call of the handler when one is set
dashboard(admin) ==
  /\ Begin("dashboard", NoParams, admin)
  /\ actionContext' = Undefined
  /\ IF dashboardHandler
     THEN /\ calls' = <<[fn |-> "dashboardHandler",
                         context |-> dashboardContext(admin)]>>
          /\ Await("dashboard_handler")
     ELSE /\ calls' = <<>>
          /\ Settle(Return(dashboardFallback))

\* dashboard, the handler settles and its promise is the result
dashboard_return ==
  /\ pc = "dashboard_handler"
  /\ \/ awaited' = Throw(CollaboratorError("handler"))
     \/ \E result \in HandlerResults : awaited' = Return(result)
  /\ Settle(awaited')
  /\ UNCHANGED <<op, params, currentAdmin, actionContext, record, records,
                 calls, store, dashboardHandler>>

----------------------------------------------------------------------------
Next ==
  \/ \E r \in RequestedResourceIds, q \in QueryStrings, a \in Actors :
       search(r, q, a)
  \/ search_return
  \/ \E r \in RequestedResourceIds, n \in RequestedActionNames, a \in Actors :
       resourceAction(r, n, a)
  \/ resourceAction_isAccessible
  \/ resourceAction_return
  \/ \E r \in RequestedResourceIds, n \in RequestedActionNames,
        i \in RequestedRecordIds, a \in Actors :
       recordAction(r, n, i, a)
  \/ recordAction_findOne
  \/ recordAction_populator
  \/ recordAction_isAccessible
  \/ recordAction_return
  \/ \E a \in Actors : dashboard(a)
  \/ dashboard_return

Spec == Init /\ [][Next]_vars

----------------------------------------------------------------------------
(* Reading the calls of the request *)

Done == pc = "done"

\* where the calls of a collaborator stand among the calls
Positions(fn) == {i \in 1..Len(calls) : calls[i].fn = fn}

\* the functions called, in the order of the calls
CallOrder == [i \in 1..Len(calls) |-> calls[i].fn]

\* no collaborator is called twice
NoRetry == \A i, j \in 1..Len(calls) : calls[i].fn = calls[j].fn => i = j

\* the action the request names is registered on the resource it names
ActionRegistered ==
  /\ Registered(params.resourceId)
  /\ params.action \in ActionNames(Resource(params.resourceId))

TitleRank(title) == CHOOSE t \in TitleIndex : Titles[t] = title

----------------------------------------------------------------------------
(* C1: whenever the resolved action's isAccessible(actor, record) answers   *)
(* false in resourceAction or recordAction, whatever the actor and the      *)
(* record (null included), the handler is not invoked in that request and   *)
(* the call fails with ForbiddenError carrying the action's name and the    *)
(* resource's id.                                                           *)
C1_DeniedNeverRunsHandler ==
  op \in {"resourceAction", "recordAction"} =>
    \A i \in Positions("isAccessible") :
      ~calls[i].result =>
        /\ Positions("handler") = {}
        /\ Done
        /\ outcome = Throw(ForbiddenError(params.action, params.resourceId))

C1_Witness ==
  /\ op = "recordAction" /\ Done
  /\ \E i \in Positions("isAccessible") :
       ~calls[i].result /\ calls[i].record.kind = "record"
  /\ outcome.kind = "throw" /\ outcome.error.name = "ForbiddenError"

(* C2 as stated: in resourceAction and recordAction the predicate is        *)
(* evaluated exactly once, before the handler, and the record given to it   *)
(* (null for resourceAction) is identical to the record the handler finds   *)
(* in its context.                                                          *)
C2_AsStated ==
  op \in {"resourceAction", "recordAction"} =>
    \A j \in Positions("handler") :
      /\ Cardinality(Positions("isAccessible")) = 1
      /\ \A i \in Positions("isAccessible") :
           /\ i < j
           /\ calls[i].record = contextRecord(calls[j].context)

(* C2: in resourceAction and recordAction the predicate is never evaluated  *)
(* twice; when the handler runs the predicate has been evaluated exactly    *)
(* once, before it, for the same action and actor; in recordAction the      *)
(* record given to the predicate is the loaded and populated record and is  *)
(* identical to the record of the handler's context; in resourceAction the  *)
(* predicate is given null and the handler's context has no record.         *)
C2_CheckedOnceBeforeHandler ==
  op \in {"resourceAction", "recordAction"} =>
    /\ Cardinality(Positions("isAccessible")) <= 1
    /\ Cardinality(Positions("handler")) <= 1
    /\ \A j \in Positions("handler") :
         /\ Cardinality(Positions("isAccessible")) = 1
         /\ \A i \in Positions("isAccessible") :
              /\ i < j
              /\ calls[i].result
              /\ calls[i].action = calls[j].action
              /\ calls[i].actor = calls[j].context.currentAdmin
              /\ IF op = "recordAction"
                 THEN /\ calls[i].record = record
                      /\ "record" \in DOMAIN calls[j].context
                      /\ calls[j].context.record = calls[i].record
                 ELSE /\ calls[i].record = Null
                      /\ "record" \notin DOMAIN calls[j].context

C2_Witness ==
  /\ op = "recordAction"
  /\ \E j \in Positions("handler") :
       /\ calls[j].context.record.kind = "record"
       /\ calls[j].context.record.populated

(* C3: in recordAction the calls are findOne(recordId), then populate, then *)
(* isAccessible, then the handler; nothing but a failure of findOne ends    *)
(* the request between findOne and populate, so populate has run to         *)
(* completion before isAccessible is evaluated for every input; a null      *)
(* answer of findOne is handed to populate, and what populate gives back    *)
(* for it (null) to the check and to the handler.                           *)
C3_PopulateBeforeCheck ==
  op = "recordAction" =>
    /\ \E n \in 0..5 :
         CallOrder = SubSeq(<<"findResource", "findOne", "populator",
                              "isAccessible", "handler">>, 1, n)
    /\ \A f \in Positions("findOne") : calls[f].recordId = params.recordId
    /\ (Done /\ Positions("findOne") # {} /\ Positions("populator") = {})
         => outcome = Throw(CollaboratorError("findOne"))
    /\ \A k \in Positions("populator") :
         /\ calls[k].records =
              <<findOne(store[params.resourceId], params.recordId)>>
         /\ \A i \in Positions("isAccessible") :
              calls[i].record = populator(calls[k].records)[1]
         /\ \A j \in Positions("handler") :
              contextRecord(calls[j].context) = populator(calls[k].records)[1]

C3_Witness ==
  /\ op = "recordAction"
  /\ \E k \in Positions("populator") : calls[k].records = <<Null>>
  /\ \E j \in Positions("handler") : contextRecord(calls[j].context) = Null

\* a handler's value has no result.record.recordActions: there is no value,
\* or no record in it, or no recordActions in the record
LacksRecordActions(json) ==
  \/ json \in {Undefined, Null}
  \/ json.record \in {Undefined, Null}
  \/ json.record.recordActions \in {Undefined, Null}

\* the handler of the request was invoked and resolved to a value
HandlerReturned ==
  Done /\ Positions("handler") # {} /\ awaited.kind = "return"

C5_UnknownIsNotFound ==
  (op \in {"resourceAction", "recordAction"} /\ ~ActionRegistered) =>
    /\ Positions("findOne") = {}
    /\ Positions("isAccessible") = {}
    /\ Positions("handler") = {}
    /\ Done => outcome = Throw(NotFoundError)

(* C6: search checks the 'list' action with isAccessible(actor, null)       *)
(* before any query: find is only called after the check answered true,    *)
(* and when it answers false the call fails with ForbiddenError{'list',     *)
(* the resource's id} and find is never called, whatever the query term.    *)
C6_SearchChecksList ==
  op = "search" =>
    /\ \A i \in Positions("isAccessible") :
         /\ calls[i].action = "list"
         /\ calls[i].actor = currentAdmin
         /\ calls[i].record = Null
         /\ ~calls[i].result =>
              /\ Positions("find") = {}
              /\ Done
              /\ outcome = Throw(ForbiddenError("list", params.resourceId))
    /\ \A j \in Positions("find") :
         \E i \in Positions("isAccessible") : i < j /\ calls[i].result

C6_Witness ==
  /\ op = "search" /\ Done
  /\ params.query = [kind |-> "string", s |-> "ann"]
  /\ \E i \in Positions("isAccessible") : ~calls[i].result
  /\ outcome = Throw(ForbiddenError("list", "users"))

\* the titles of a list of serialized records ascend
Ascending(list) ==
  \A i, j \in 1..Len(list) :
    i < j => TitleRank(list[i].title) <= TitleRank(list[j].title)

(* C7: an authorized search, whatever the resource and the query term,      *)
(* issues exactly one find, with limit 50 and sort ascending by the         *)
(* resource's title property, with the filter {titleProperty: queryTerm}    *)
(* for a non-empty term and the empty filter otherwise; the result holds at *)
(* most 50 records, ascending by the title property.                        *)
C7_SearchFind ==
  op = "search" =>
    /\ Cardinality(Positions("find")) <= 1
    /\ (\E i \in Positions("isAccessible") : calls[i].result)
         => Cardinality(Positions("find")) = 1
    /\ \A j \in Positions("find") :
         LET property == IF params.resourceId = "users" THEN "name"
                         ELSE "number"
         IN /\ calls[j].options.limit = 50
            /\ calls[j].options.sort =
                 [sortBy |-> property, direction |-> "asc"]
            /\ calls[j].filter.resource = params.resourceId
            /\ calls[j].filter.filters =
                 IF params.query.kind = "string"
                 THEN {<<property, params.query.s>>} ELSE {}
    /\ (Done /\ outcome.kind = "return") =>
         /\ Len(outcome.value.records) <= 50
         /\ Ascending(outcome.value.records)

C7_Witness ==
  /\ op = "search" /\ Done /\ outcome.kind = "return"
  /\ params.query.kind = "emptyString"
  /\ Len(outcome.value.records) = 50
  /\ outcome.value.records[1].title # outcome.value.records[50].title
  /\ Len(outcome.value.records) < Len(RecordsFrom(store[params.resourceId], 1))

(* C8 as stated: dashboard with no handler set returns the payload          *)
(* { message: "You can override this method by setting up                   *)
(* dashboard.handler function in options" }.                                *)
C8_AsStated ==
  (op = "dashboard" /\ ~dashboardHandler /\ Done) =>
    outcome =
      [kind |-> "return",
       value |-> [message |-> "You can override this method by setting up dashboard.handler function in options"]]

(* C8: dashboard with no handler set returns, whatever the actor and the    *)
(* request, the payload { message: "You can override this method by setting *)
(* up dashboard.handler fuction in AdminBro options" } and calls nothing;   *)
(* with a handler set it checks no authorization, invokes the handler once  *)
(* with {h, currentAdmin, _admin} and what the handler settles to is the    *)
(* outcome, unchanged.                                                      *)
C8_Dashboard ==
  op = "dashboard" =>
    IF dashboardHandler
    THEN /\ CallOrder = <<"dashboardHandler">>
         /\ DOMAIN calls[1].context = {"h", "currentAdmin", "_admin"}
         /\ calls[1].context.currentAdmin = currentAdmin
         /\ Done => outcome = awaited
    ELSE /\ calls = <<>>
         /\ Done
         /\ outcome =
              [kind |-> "return",
               value |-> [message |-> "You can override this method by setting up dashboard.handler fuction in AdminBro options"]]

C8_Witness ==
  /\ op = "dashboard" /\ Done
  /\ ~dashboardHandler /\ currentAdmin = "guest" /\ outcome.kind = "return"

C10_PassThrough ==
  /\ op = "resourceAction" =>
       /\ (\E i \in Positions("isAccessible") : calls[i].result)
            => Cardinality(Positions("handler")) = 1
       /\ (Done /\ Positions("handler") # {}) => outcome = awaited
  /\ op \in {"resourceAction", "recordAction"} =>
       /\ NoRetry
       /\ awaited.kind = "throw" =>
            /\ Done
            /\ outcome = awaited
            /\ awaited.error.name = "Error"
            /\ calls[Len(calls)].fn = awaited.error.from

C10_Witness ==
  /\ op = "resourceAction" /\ Done
  /\ Positions("handler") # {}
  /\ outcome = Return(Json(RecordJson(Undefined)))

====
